---- MODULE Spec2Model ----
(***************************************************************************)
(* Dzongkha (U-chen) -> Roman Dzongkha converter.                          *)
(*                                                                         *)
(* A U-chen string is a sequence of code points, each written as its four  *)
(* hex digits ("0F40" is U+0F40).  A Roman string is a sequence of         *)
(* characters; the non-ASCII ones are named: "auml" "ouml" "uuml" (a, o, u *)
(* with diaeresis), "acirc" "ecirc" "icirc" "ocirc" "ucirc" (circumflex),  *)
(* "rsquo" (U+2019).  "'" is the ASCII apostrophe.                         *)
(***************************************************************************)
EXTENDS Integers, Sequences, FiniteSets, TLC

VARIABLES
    EXCEPTIONS,   \* the exception table: normalized key -> Roman string
    pc,           \* "idle", "WholeTextCheck", "TokenScan" or "returned"
    fn,           \* the function the current call entered, or "none"
    argType,      \* typeof the argument of the current call
    input,        \* the argument's text when it is a string, else << >>
    rawTokens,    \* convertDzongkhaText: the token list
    i,            \* convertDzongkhaText: the scan cursor (0-based)
    out,          \* convertDzongkhaText: the Roman entries emitted so far
    result        \* the value the call returned

vars == <<EXCEPTIONS, pc, fn, argType, input, rawTokens, i, out, result>>

(* ------------------------- string primitives ------------------------- *)

\* JavaScript's \s class, which is also what String.prototype.trim strips.
WhiteSpace ==
    {"0009", "000A", "000B", "000C", "000D", "0020", "00A0", "1680",
     "2000", "2001", "2002", "2003", "2004", "2005", "2006", "2007",
     "2008", "2009", "200A", "2028", "2029", "202F", "205F", "3000",
     "FEFF"}

NULL == "null"

RECURSIVE trimStart(_)
trimStart(s) ==
    IF s /= <<>> /\ Head(s) \in WhiteSpace THEN trimStart(Tail(s)) ELSE s

RECURSIVE trimEnd(_)
trimEnd(s) ==
    IF s /= <<>> /\ s[Len(s)] \in WhiteSpace
    THEN trimEnd(SubSeq(s, 1, Len(s) - 1)) ELSE s

\* a mutation of trim: the argument is used untrimmed
trim_None(s) == s

trim(s) == trimEnd(trimStart(s))

\* s.includes(k)
includes(s, k) ==
    \E p \in 1..(Len(s) - Len(k) + 1) : SubSeq(s, p, p + Len(k) - 1) = k

\* array.includes(ch)
contains(s, ch) == \E p \in 1..Len(s) : s[p] = ch

\* array.indexOf(ch), 1-based; 0 when absent
indexOf(s, ch) ==
    IF contains(s, ch) THEN CHOOSE p \in 1..Len(s) :
                                /\ s[p] = ch
                                /\ \A q \in 1..(p - 1) : s[q] /= ch
    ELSE 0

\* array.splice(p, 1)
removeAt(s, p) == SubSeq(s, 1, p - 1) \o SubSeq(s, p + 1, Len(s))

endsWith(s, suffix) ==
    /\ Len(s) >= Len(suffix)
    /\ SubSeq(s, Len(s) - Len(suffix) + 1, Len(s)) = suffix

startsWith(s, prefix) ==
    /\ Len(s) >= Len(prefix)
    /\ SubSeq(s, 1, Len(prefix)) = prefix

RECURSIVE concat(_)
concat(ss) == IF ss = <<>> THEN <<>> ELSE Head(ss) \o concat(Tail(ss))

\* array.join(sep)
RECURSIVE join(_, _)
join(ss, sep) ==
    IF ss = <<>> THEN <<>>
    ELSE IF Len(ss) = 1 THEN ss[1]
    ELSE ss[1] \o sep \o join(Tail(ss), sep)

(* ------------------------- Core mappings ------------------------- *)

INITIAL_BASE ==
    "0F40" :> <<"k">> @@ "0F41" :> <<"k", "h">> @@ "0F42" :> <<"g">> @@
    "0F44" :> <<"n", "g">> @@ "0F45" :> <<"c">> @@
    "0F46" :> <<"c", "h">> @@ "0F47" :> <<"j">> @@
    "0F49" :> <<"n", "y">> @@ "0F4F" :> <<"t">> @@
    "0F50" :> <<"t", "h">> @@ "0F51" :> <<"d">> @@ "0F53" :> <<"n">> @@
    "0F54" :> <<"p">> @@ "0F55" :> <<"p", "h">> @@ "0F56" :> <<"b">> @@
    "0F58" :> <<"m">> @@ "0F59" :> <<"t", "s">> @@
    "0F5A" :> <<"t", "s", "h">> @@ "0F5B" :> <<"d", "z">> @@
    "0F5D" :> <<"w">> @@ "0F5E" :> <<"z", "h">> @@ "0F5F" :> <<"z">> @@
    "0F60" :> <<"a">> @@ "0F61" :> <<"y">> @@ "0F62" :> <<"r">> @@
    "0F63" :> <<"l">> @@ "0F64" :> <<"s", "h">> @@ "0F66" :> <<"s">> @@
    "0F67" :> <<"h">> @@ "0F68" :> <<"a">>

DEVOICE_CANDIDATES ==
    {<<"0F42">>, <<"0F47">>, <<"0F51">>, <<"0F56">>, <<"0F56", "0FB1">>,
     <<"0F51", "0FB2">>, <<"0F5E">>, <<"0F5F">>}

\* Object.keys(VOWELS) in insertion order; "" is the inherent vowel
VOWEL_KEYS == <<"", "0F72", "0F74", "0F7A", "0F7C">>

VOWELS ==
    "" :> <<"a">> @@ "0F72" :> <<"i">> @@ "0F74" :> <<"u">> @@
    "0F7A" :> <<"e">> @@ "0F7C" :> <<"o">>

LONG_MARK == "0F71"

FINAL_MAP ==
    "0F40" :> <<"k">> @@ "0F4F" :> <<"t">> @@ "0F54" :> <<"p">> @@
    "0F53" :> <<"n">> @@ "0F64" :> <<"s", "h">> @@ "0F63" :> <<"l">> @@
    "0F62" :> <<"r">> @@ "0F44" :> <<"n", "g">>

PREFIX_SET == {"0F42", "0F51", "0F56", "0F58", "0F60"}

MEDIALS ==
    "0FB1" :> <<"y">> @@ "0FAD" :> <<"w">> @@ "0FB2" :> <<"r">>

\* the entries in insertion order (the order of Object.keys)
CLUSTER_INITIAL_MAP == <<
    [key |-> <<"0F56", "0F62", "0F92", "0FB1">>, roman |-> <<"g", "auml">>,
     whole |-> TRUE, preferHard |-> FALSE],
    [key |-> <<"0F56", "0F62", "0F92">>, roman |-> <<"g">>,
     whole |-> FALSE, preferHard |-> TRUE],
    [key |-> <<"0F62", "0F92", "0FB1">>, roman |-> <<"g", "y", "a">>,
     whole |-> FALSE, preferHard |-> TRUE],
    [key |-> <<"0F42", "0FB1">>, roman |-> <<"j">>,
     whole |-> FALSE, preferHard |-> FALSE],
    [key |-> <<"0F42", "0FB2">>, roman |-> <<"d", "r">>,
     whole |-> FALSE, preferHard |-> FALSE],
    [key |-> <<"0F63", "0FB7">>, roman |-> <<"l", "h">>,
     whole |-> FALSE, preferHard |-> TRUE],
    [key |-> <<"0F66", "0F92", "0FB2">>, roman |-> <<"d", "r">>,
     whole |-> FALSE, preferHard |-> TRUE],
    [key |-> <<"0F66", "0FA6", "0FB1">>, roman |-> <<"b", "j">>,
     whole |-> FALSE, preferHard |-> TRUE],
    [key |-> <<"0F66", "0FB3">>, roman |-> <<"l">>,
     whole |-> FALSE, preferHard |-> TRUE] >>

TSHEG == "0F0B"

\* the class [།༎༏༔\s] of normalizeKey and decomposeSyllableRaw
PunctOrSpace == {"0F0D", "0F0E", "0F0F", "0F14"} \cup WhiteSpace

(* ------------------------- Exceptions ------------------------- *)

\* a mutation of normalizeKey: the punctuation class is not removed
normalizeKey_KeepsPunct(s) ==
    IF s = <<>> THEN s
    ELSE trim(SelectSeq(s, LAMBDA ch : ch /= TSHEG))

normalizeKey(s) ==
    IF s = <<>> THEN s
    ELSE LET noTsheg == SelectSeq(s, LAMBDA ch : ch /= TSHEG)
             noPunct == SelectSeq(noTsheg, LAMBDA ch : ch \notin PunctOrSpace)
         IN  trim(noPunct)

\* EXCEPTIONS[normalizeKey(uScript)] = roman, on the table e
addException(e, uScript, roman) ==
    LET k == normalizeKey(uScript)
    IN  [x \in (DOMAIN e) \cup {k} |-> IF x = k THEN roman ELSE e[x]]

\* the addException calls of the explicit example block, in program order
ExceptionCalls == <<
    <<<<"0F56", "0F62", "0F92", "0FB1", "0F51">>,
      <<"g", "auml">>>>,  \* line 96
    <<<<"0F62", "0F92", "0F66", "0F54">>,
      <<"g", "e", "p">>>>,  \* line 97
    <<<<"0F66", "0F90", "0F74">>,
      <<"k", "u">>>>,  \* line 98
    <<<<"0F40", "0F74", "0F5D">>,
      <<"k", "ucirc">>>>,  \* line 99
    <<<<"0F40", "0F7A", "0F54">>,
      <<"k", "e", "p">>>>,  \* line 100
    <<<<"0F62", "0F92", "0F7A", "0F53">>,
      <<"g", "e", "n">>>>,  \* line 101
    <<<<"0F62", "0F92", "0F7A", "0F54">>,
      <<"g", "e", "p">>>>,  \* line 102
    <<<<"0F62", "0F92", "0F7C", "0F54">>,
      <<"g", "o", "p">>>>,  \* line 103
    <<<<"0F40", "0FB2", "0F7C">>,
      <<"t", "r", "o">>>>,  \* line 104
    <<<<"0F66", "0FB3", "0F7C", "0F66", "0F0B", "0F62", "0FA6", "0F7C", "0F66">>,
      <<"rsquo", "l", "ouml", "b", "ouml">>>>,  \* line 105
    <<<<"0F56", "0F40", "0FB2", "0F0B", "0F64", "0F72", "0F66">>,
      <<"T", "r", "a", "s", "h", "i">>>>,  \* line 106
    <<<<"0F56", "0F5F", "0F7C", "0F0B", "0F62", "0F72", "0F42">>,
      <<"Z", "o", "r", "i">>>>,  \* line 107
    <<<<"0F56", "0F5F", "0F44", "0F0B", "0F60", "0F56", "0FB2", "0F7A", "0F63">>,
      <<"z", "a", "n", "g", "d", "r", "e">>>>,  \* line 108
    <<<<"0F61", "0F62", "0F0B", "0F60", "0F51", "0FB2", "0F7A", "0F53">>,
      <<"y", "acirc", "d", "r", "e", "n">>>>,  \* line 109
    <<<<"0F62", "0F92", "0FB1", "0F63", "0F0B", "0F58", "0F5A", "0F53">>,
      <<"g", "auml", "t", "s", "h", "e">>>>,  \* line 110
    <<<<"0F46", "0F7C", "0F66", "0F0B", "0F66", "0F92", "0FB2">>,
      <<"C", "h", "ouml", "d", "r", "a">>>>,  \* line 111
    <<<<"0F62", "0FA3", "0F58", "0F0B", "0F62", "0F92", "0F74", "0F66", "0F44">>,
      <<"'", "n", "a", "m", "g", "uuml", "n", "g">>>> >> \* line 112

RECURSIVE populate(_, _)
populate(e, calls) ==
    IF calls = <<>> THEN e
    ELSE populate(addException(e, Head(calls)[1], Head(calls)[2]), Tail(calls))

\* the table after module initialisation
InitialExceptions == populate(<<>>, ExceptionCalls)

(* ------------------------- Utility helpers ------------------------- *)

normToken(t) == normalizeKey(t)

\* keys.sort((a,b) => b.length - a.length): a stable sort, so entries of one
\* length keep their insertion order
RECURSIVE sortByLengthDesc(_, _)
sortByLengthDesc(entries, n) ==
    IF n = 0 THEN <<>>
    ELSE SelectSeq(entries, LAMBDA c : Len(c.key) = n)
         \o sortByLengthDesc(entries, n - 1)

MaxKeyLength(entries) ==
    CHOOSE n \in {Len(entries[p].key) : p \in 1..Len(entries)} :
        \A p \in 1..Len(entries) : Len(entries[p].key) <= n

NoCluster == [key |-> <<>>, roman |-> <<>>, whole |-> FALSE, preferHard |-> FALSE]

\* a mutation of findClusterMap: the keys are tried in table order, unsorted
findClusterMap_Unsorted(s) ==
    LET hits == SelectSeq(CLUSTER_INITIAL_MAP, LAMBDA c : includes(s, c.key))
    IN  IF hits = <<>> THEN NoCluster ELSE hits[1]

\* NoCluster stands for the null result
findClusterMap(s) ==
    LET keys == sortByLengthDesc(CLUSTER_INITIAL_MAP,
                                 MaxKeyLength(CLUSTER_INITIAL_MAP))
        hits == SelectSeq(keys, LAMBDA c : includes(s, c.key))
    IN  IF hits = <<>> THEN NoCluster ELSE hits[1]

\* the first key of VOWELS, in table order, that occurs in cleaned ("" if none)
RECURSIVE findVowelSign(_, _)
findVowelSign(keys, cleaned) ==
    IF keys = <<>> THEN ""
    ELSE IF Head(keys) /= "" /\ contains(cleaned, Head(keys)) THEN Head(keys)
    ELSE findVowelSign(Tail(keys), cleaned)

decomposeSyllableRaw(syll) ==
    LET chars == SelectSeq(syll, LAMBDA ch : ch /= TSHEG /\ ch \notin PunctOrSpace)
        longMark == contains(chars, LONG_MARK)
        noLong == SelectSeq(chars, LAMBDA ch : ch /= LONG_MARK)
        vowelSign == findVowelSign(VOWEL_KEYS, noLong)
        cleaned == IF vowelSign = "" THEN noLong
                   ELSE removeAt(noLong, indexOf(noLong, vowelSign))
        hasPrefix == \E p \in 1..(Len(cleaned) - 1) : cleaned[p] \in PREFIX_SET
        medials == SelectSeq(cleaned, LAMBDA ch : ch \in DOMAIN MEDIALS)
        medialsFound == [p \in 1..Len(medials) |-> MEDIALS[medials[p]]]
        initials == SelectSeq(cleaned, LAMBDA ch : ch \in DOMAIN INITIAL_BASE)
        baseInitial == IF initials = <<>> THEN NULL ELSE initials[1]
        finals == SelectSeq(cleaned, LAMBDA ch : ch \in DOMAIN FINAL_MAP)
        finalChar == IF finals = <<>> THEN NULL ELSE finals[Len(finals)]
    IN  [baseInitial |-> baseInitial, vowelSign |-> vowelSign,
         longMark |-> longMark, hasPrefix |-> hasPrefix,
         medialsFound |-> medialsFound, finalChar |-> finalChar,
         rawChars |-> chars]

(* ------------------------- Conversion primitives ------------------------- *)

circ == "a" :> "acirc" @@ "e" :> "ecirc" @@ "i" :> "icirc" @@
        "o" :> "ocirc" @@ "u" :> "ucirc"

\* for (const m of medialsFound) if (!initialRoman.endsWith(m)) initialRoman += m
RECURSIVE addMedials(_, _)
addMedials(initialRoman, ms) ==
    IF ms = <<>> THEN initialRoman
    ELSE addMedials(IF endsWith(initialRoman, Head(ms)) THEN initialRoman
                    ELSE initialRoman \o Head(ms), Tail(ms))

\* a mutation of longVowel: the long mark circumflexes before -ng as well
longVowel_IgnoreNg(vowel, longMark, finalChar) ==
    IF longMark /\ Len(vowel) = 1 /\ vowel[1] \in DOMAIN circ
    THEN <<circ[vowel[1]]>> ELSE vowel

\* long-vowel handling: circumflex, except before final -ng
longVowel(vowel, longMark, finalChar) ==
    LET finalIsNg == finalChar = "0F44"
    IN  IF longMark /\ ~finalIsNg /\ Len(vowel) = 1 /\ vowel[1] \in DOMAIN circ
        THEN <<circ[vowel[1]]>> ELSE vowel

\* a mutation of assemble: the preferHard flag of the cluster is not read
assemble_IgnoresPreferHard(comp, clmap) ==
    LET base == INITIAL_BASE[comp.baseInitial]
        hinted == clmap /= NoCluster /\ clmap.roman /= <<>> /\ ~clmap.whole
        initial1 == IF hinted THEN clmap.roman ELSE base
        initial2 == IF ~comp.hasPrefix
                       /\ <<comp.baseInitial>> \in DEVOICE_CANDIDATES
                       /\ ~endsWith(initial1, <<"'">>)
                    THEN initial1 \o <<"'">> ELSE initial1
        initialRoman == addMedials(initial2, comp.medialsFound)
        vowelRoman == longVowel(VOWELS[comp.vowelSign], comp.longMark,
                                comp.finalChar)
        finalRoman == IF comp.finalChar /= NULL THEN FINAL_MAP[comp.finalChar]
                      ELSE <<>>
    IN  initialRoman \o vowelRoman \o finalRoman

\* step 3 of convertSyllable: the rule-based assembly of a decomposed syllable
assemble(comp, clmap) ==
    LET base == INITIAL_BASE[comp.baseInitial]
        hinted == clmap /= NoCluster /\ clmap.roman /= <<>> /\ ~clmap.whole
        initial1 == IF hinted THEN clmap.roman ELSE base
        hasPrefix == IF hinted /\ clmap.preferHard THEN TRUE ELSE comp.hasPrefix
        initial2 == IF ~hasPrefix /\ <<comp.baseInitial>> \in DEVOICE_CANDIDATES
                       /\ ~endsWith(initial1, <<"'">>)
                    THEN initial1 \o <<"'">> ELSE initial1
        initialRoman == addMedials(initial2, comp.medialsFound)
        vowelRoman == longVowel(VOWELS[comp.vowelSign], comp.longMark,
                                comp.finalChar)
        finalRoman == IF comp.finalChar /= NULL THEN FINAL_MAP[comp.finalChar]
                      ELSE <<>>
    IN  initialRoman \o vowelRoman \o finalRoman

\* a mutation of passthrough: only the normalized key is returned
passthrough_NormalizedOnly(normalized, raw) == normalized

\* nothing recognized as initial: return normalized || raw
passthrough(normalized, raw) ==
    IF normalized /= <<>> THEN normalized ELSE raw

\* a mutation of convertSyllable: the exception table is not consulted
convertSyllable_NoExceptions(syll) ==
    IF syll = <<>> THEN <<>>
    ELSE LET raw == trim(syll)
             normalized == normToken(raw)
             clmap == findClusterMap(raw)
             comp == decomposeSyllableRaw(raw)
         IN  IF raw = <<>> THEN <<>>
             ELSE IF clmap /= NoCluster /\ clmap.whole THEN clmap.roman
             ELSE IF comp.baseInitial = NULL THEN passthrough(normalized, raw)
             ELSE assemble(comp, clmap)

convertSyllable(syll) ==
    IF syll = <<>> THEN <<>>
    ELSE LET raw == trim(syll)
             normalized == normToken(raw)
             clmap == findClusterMap(raw)
             comp == decomposeSyllableRaw(raw)
         IN  IF raw = <<>> THEN <<>>
             ELSE IF normalized \in DOMAIN EXCEPTIONS THEN EXCEPTIONS[normalized]
             ELSE IF clmap /= NoCluster /\ clmap.whole THEN clmap.roman
             ELSE IF comp.baseInitial = NULL THEN passthrough(normalized, raw)
             ELSE assemble(comp, clmap)

(* ------------------------- Multi-token conversion ------------------------- *)

isSeparator(ch) == ch \in WhiteSpace \cup {TSHEG}

\* trimmed.split(/[\s་]+/g): the pieces between maximal separator runs
RECURSIVE splitFrom(_, _, _, _)
splitFrom(s, p, piece, pieces) ==
    IF p > Len(s) THEN Append(pieces, piece)
    ELSE IF isSeparator(s[p])
         THEN IF p > 1 /\ isSeparator(s[p - 1])
              THEN splitFrom(s, p + 1, piece, pieces)
              ELSE splitFrom(s, p + 1, <<>>, Append(pieces, piece))
    ELSE splitFrom(s, p + 1, Append(piece, s[p]), pieces)

tokenize(trimmed) ==
    SelectSeq(splitFrom(trimmed, 1, <<>>, <<>>), LAMBDA t : t /= <<>>)

\* normalizeKey(rawTokens.slice(i, i + w).join(''))
normSlice(tokens, cursor, w) ==
    normalizeKey(concat(SubSeq(tokens, cursor + 1, cursor + w)))

windowMatches(tokens, cursor, w) ==
    /\ cursor + w <= Len(tokens)
    /\ normSlice(tokens, cursor, w) \in DOMAIN EXCEPTIONS

\* a mutation of matchedWidth: the shorter window is tried first
matchedWidth_ShortFirst(tokens, cursor) ==
    IF windowMatches(tokens, cursor, 2) THEN 2
    ELSE IF windowMatches(tokens, cursor, 3) THEN 3
    ELSE 0

\* for (let w = 3; w >= 2; w--): the first matching width, 0 when none
matchedWidth(tokens, cursor) ==
    IF windowMatches(tokens, cursor, 3) THEN 3
    ELSE IF windowMatches(tokens, cursor, 2) THEN 2
    ELSE 0

(* ------------------------- Test2.js: rule-based converter ------------------------- *)

consonantMap ==
    "0F40" :> <<"k">> @@ "0F41" :> <<"k", "h">> @@ "0F42" :> <<"g">> @@
    "0F44" :> <<"n", "g">> @@ "0F45" :> <<"c", "h">> @@
    "0F46" :> <<"c", "h", "h">> @@ "0F47" :> <<"j">> @@
    "0F49" :> <<"n", "y">> @@ "0F4F" :> <<"t">> @@
    "0F50" :> <<"t", "h">> @@ "0F51" :> <<"d">> @@ "0F53" :> <<"n">> @@
    "0F54" :> <<"p">> @@ "0F55" :> <<"p", "h">> @@ "0F56" :> <<"b">> @@
    "0F58" :> <<"m">> @@ "0F59" :> <<"t", "s">> @@
    "0F5A" :> <<"t", "s", "h">> @@ "0F5B" :> <<"d", "z">> @@
    "0F5D" :> <<"w">> @@ "0F5E" :> <<"z", "h">> @@ "0F5F" :> <<"z">> @@
    "0F60" :> <<"rsquo">> @@ "0F61" :> <<"y">> @@ "0F62" :> <<"r">> @@
    "0F63" :> <<"l">> @@ "0F64" :> <<"s", "h">> @@ "0F66" :> <<"s">> @@
    "0F67" :> <<"h">> @@ "0F68" :> <<"a">>

subjoinedMap ==
    "0F90" :> <<"k">> @@ "0F91" :> <<"k", "h">> @@ "0F92" :> <<"g">> @@
    "0F94" :> <<"n", "g">> @@ "0F95" :> <<"c", "h">> @@
    "0F96" :> <<"c", "h", "h">> @@ "0F97" :> <<"j">> @@
    "0F99" :> <<"n", "y">> @@ "0F9F" :> <<"t">> @@
    "0FA0" :> <<"t", "h">> @@ "0FA1" :> <<"d">> @@ "0FA3" :> <<"n">> @@
    "0FA4" :> <<"p">> @@ "0FA5" :> <<"p", "h">> @@ "0FA6" :> <<"b">> @@
    "0FA8" :> <<"m">> @@ "0FA9" :> <<"t", "s">> @@
    "0FAA" :> <<"t", "s", "h">> @@ "0FAB" :> <<"d", "z">> @@
    "0FAD" :> <<"w">> @@ "0FB1" :> <<"y">> @@ "0FB2" :> <<"r">> @@
    "0FB3" :> <<"l">> @@ "0FB4" :> <<"s", "h">> @@ "0FB6" :> <<"s">> @@
    "0FB7" :> <<"h">>

vowelMap ==
    "0F72" :> <<"i">> @@ "0F74" :> <<"u">> @@ "0F7A" :> <<"e">> @@
    "0F7C" :> <<"o">> @@ "0F71" :> <<"acirc">> @@
    "0F7B" :> <<"a", "i">> @@ "0F7D" :> <<"a", "u">>

finalMap ==
    "0F42" :> <<"g">> @@ "0F44" :> <<"n", "g">> @@ "0F51" :> <<"d">> @@
    "0F53" :> <<"n">> @@ "0F56" :> <<"b">> @@ "0F58" :> <<"m">> @@
    "0F60" :> <<"rsquo">> @@ "0F62" :> <<"r">> @@ "0F63" :> <<"l">> @@
    "0F66" :> <<"s">>

\* result += map[ch] for every ch of chars that the map has
RECURSIVE appendMapped(_, _, _)
appendMapped(res, chars, map) ==
    IF chars = <<>> THEN res
    ELSE appendMapped(IF Head(chars) \in DOMAIN map
                      THEN res \o map[Head(chars)] ELSE res,
                      Tail(chars), map)

\* result.replace(/a$/, "")
dropFinalA(res) ==
    IF endsWith(res, <<"a">>) THEN SubSeq(res, 1, Len(res) - 1) ELSE res

\* the vowel loop: every vowel sign strips a trailing "a" and appends itself
RECURSIVE applyVowels(_, _)
applyVowels(res, chars) ==
    IF chars = <<>> THEN res
    ELSE applyVowels(IF Head(chars) \in DOMAIN vowelMap
                     THEN dropFinalA(res) \o vowelMap[Head(chars)] ELSE res,
                     Tail(chars))

\* /[aeiouâ]$/.test(result)
endsInVowel(res) ==
    res /= <<>> /\ res[Len(res)] \in {"a", "e", "i", "o", "u", "acirc"}

\* convertSyllable of Test2.js
convertSyllable_Test2(syllable) ==
    LET chars == syllable
        rest == IF chars = <<>> THEN <<>> ELSE Tail(chars)
        r0 == IF chars /= <<>> /\ chars[1] \in DOMAIN consonantMap
              THEN consonantMap[chars[1]] ELSE <<>>
        r1 == appendMapped(r0, rest, subjoinedMap)
        r2 == applyVowels(r1, rest)
        vowelApplied == \E p \in 1..Len(rest) : rest[p] \in DOMAIN vowelMap
        r3 == appendMapped(r2, rest, finalMap)
    IN  IF ~vowelApplied /\ ~endsInVowel(r3) THEN r3 \o <<"a">> ELSE r3

applyPhonologicalRules(word) ==
    LET w1 == IF Len(word) >= 2 /\ word[1] = "d" /\ word[2] \in {"k", "g"}
              THEN Tail(word) ELSE word
        w2 == IF Len(w1) >= 2 /\ w1[1] = "b" /\ w1[2] = "z"
              THEN Tail(w1) ELSE w1
        w3 == IF Len(w2) >= 2 /\ w2[1] = "s" /\ w2[2] = "d"
              THEN Tail(w2) ELSE w2
        w4 == IF Len(w3) >= 2 /\ w3[1] = "h" /\ w3[2] = "b"
              THEN Tail(w3) ELSE w3
        w5 == IF startsWith(w4, <<"b", "r", "g">>)
              THEN <<"g">> \o SubSeq(w4, 4, Len(w4)) ELSE w4
        w6 == IF w5 = <<"b", "z", "l", "o", "g", "t", "h", "a", "b", "s">>
              THEN <<"d", "o", "k", "t", "h", "a", "p">> ELSE w5
        w7 == IF endsWith(w6, <<"b", "o">>)
              THEN SubSeq(w6, 1, Len(w6) - 2) \o <<"p", "o">> ELSE w6
    IN  w7

normalizeSyllables(syllables) ==
    applyPhonologicalRules(
        concat([p \in 1..Len(syllables) |-> convertSyllable_Test2(syllables[p])]))

\* text.split(TSHEG): the pieces between single separators
RECURSIVE splitOnTsheg(_, _, _, _)
splitOnTsheg(s, p, piece, pieces) ==
    IF p > Len(s) THEN Append(pieces, piece)
    ELSE IF s[p] = TSHEG
         THEN splitOnTsheg(s, p + 1, <<>>, Append(pieces, piece))
    ELSE splitOnTsheg(s, p + 1, Append(piece, s[p]), pieces)

convertDzongkha(text) ==
    normalizeSyllables(
        SelectSeq(splitOnTsheg(text, 1, <<>>, <<>>), LAMBDA t : t /= <<>>))

(* ------------------------- Arguments of the calls ------------------------- *)

MaxSylLen == 3    \* length of the free-form strings
MaxNoise == 1     \* characters inserted into a known spelling
MaxTokens == 4    \* syllables of a composed text

\* one or two letters of every role, the separators and an unmapped sign
Alphabet ==
    {"0F42", "0F5F", "0F40", "0F44", "0F58", "0F63",   \* roots
     "0FB1", "0FB7",                                   \* subjoined
     "0F72", "0F74", "0F71",                           \* vowel signs, long mark
     "0F0B", "0020", "0F0D",                           \* tsheg, space, shad
     "0F04"}                                           \* no table role

\* what is inserted into a known spelling
InsertChars == {"0F0B", "0020", "0F0D", "0F04", "0F72", "0F71", "0F44"}

\* the documented examples of Test2.js
DemoInputs == {
    <<"0F51", "0F40", "0F62", "0F0B", "0F54", "0F7C">>,
    <<"0F56", "0F5F", "0FB3", "0F7C", "0F42", "0F0B", "0F50", "0F56", "0F66">>,
    <<"0F60", "0F56", "0FB2", "0F74", "0F42">>,
    <<"0F56", "0F5F", "0F44", "0F0B", "0F54", "0F7C">>,
    <<"0F63", "0FB7">> }

\* spellings the tables name: exception spellings as registered and as
\* stored, cluster keys, examples
KnownSpellings ==
    {ExceptionCalls[p][1] : p \in 1..Len(ExceptionCalls)}
    \cup DOMAIN InitialExceptions
    \cup {CLUSTER_INITIAL_MAP[p].key : p \in 1..Len(CLUSTER_INITIAL_MAP)}
    \cup DemoInputs

\* syllables a text is composed of
Syllables == {
    <<"0F56", "0F40", "0FB2">>, <<"0F64", "0F72", "0F66">>,
    <<"0F56", "0F5F", "0F44">>, <<"0F60", "0F56", "0FB2", "0F7A", "0F63">>,
    <<"0F54", "0F7C">>, <<"0F66", "0F90", "0F74">>, <<"0F0D">> }

Strings(n) == UNION {[1..m -> Alphabet] : m \in 0..n}

insertOne(S) ==
    UNION {{SubSeq(s, 1, p) \o <<ch>> \o SubSeq(s, p + 1, Len(s)) :
               p \in 0..Len(s), ch \in InsertChars} : s \in S}

RECURSIVE withNoise(_, _)
withNoise(S, n) ==
    IF n = 0 THEN S ELSE S \cup withNoise(insertOne(S), n - 1)

\* texts of 1..n syllables, joined by the tsheg
RECURSIVE composed(_)
composed(n) ==
    IF n = 1 THEN Syllables
    ELSE composed(n - 1) \cup
         {t \o <<TSHEG>> \o s : t \in composed(n - 1), s \in Syllables}

SingleLetters ==
    {<<ch>> : ch \in DOMAIN INITIAL_BASE \cup DOMAIN subjoinedMap
                     \cup DOMAIN vowelMap \cup PunctOrSpace}

\* one cluster key or two in a row, bare or followed by a vowel sign, the
\* long mark or a final
ClusterInputs ==
    LET keys == {CLUSTER_INITIAL_MAP[p].key : p \in 1..Len(CLUSTER_INITIAL_MAP)}
        tails == {<<>>, <<"0F72">>, <<"0F71">>, <<"0F44">>}
    IN  {k \o t : k \in keys, t \in tails}
        \cup {k1 \o k2 \o t : k1 \in keys, k2 \in keys, t \in tails}

SyllableInputs ==
    Strings(MaxSylLen) \cup SingleLetters \cup withNoise(KnownSpellings, MaxNoise)
    \cup ClusterInputs

TextInputs == SyllableInputs \cup composed(MaxTokens)

NonStringTypes == {"undefined", "number", "object"}

(* ------------------------- The calls ------------------------- *)

Init ==
    /\ EXCEPTIONS = InitialExceptions
    /\ pc = "idle"
    /\ fn = "none"
    /\ argType = "none"
    /\ input = <<>>
    /\ rawTokens = <<>>
    /\ i = 0
    /\ out = <<>>
    /\ result = <<>>

\* convertSyllable(syll), called from outside
CallConvertSyllable ==
    /\ pc = "idle"
    /\ \E t \in {"string"} \cup NonStringTypes :
       \E s \in (IF t = "string" THEN SyllableInputs ELSE {<<>>}) :
          /\ argType' = t
          /\ input' = s
          /\ result' = IF t /= "string" THEN <<>> ELSE convertSyllable(s)
    /\ fn' = "convertSyllable"
    /\ pc' = "returned"
    /\ UNCHANGED <<EXCEPTIONS, rawTokens, i, out>>

\* convertDzongkhaText(input): the guards on the argument
Start ==
    /\ pc = "idle"
    /\ \E t \in {"string"} \cup NonStringTypes :
       \E s \in (IF t = "string" THEN TextInputs ELSE {<<>>}) :
          /\ argType' = t
          /\ input' = s
          /\ IF t /= "string" \/ s = <<>> \/ trim(s) = <<>>
             THEN pc' = "returned"
             ELSE pc' = "WholeTextCheck"
    /\ fn' = "convertDzongkhaText"
    /\ result' = <<>>
    /\ UNCHANGED <<EXCEPTIONS, rawTokens, i, out>>

\* a mutation of WholeTextCheck: the full text is never looked up
WholeTextCheck_NoLookup ==
    /\ pc = "WholeTextCheck"
    /\ rawTokens' = tokenize(trim(input))
    /\ i' = 0
    /\ out' = <<>>
    /\ pc' = "TokenScan"
    /\ UNCHANGED <<EXCEPTIONS, fn, argType, input, result>>

\* the full-text exception, else the token list
WholeTextCheck ==
    /\ pc = "WholeTextCheck"
    /\ LET trimmed == trim(input)
           normalizedFull == normalizeKey(trimmed)
       IN  IF normalizedFull \in DOMAIN EXCEPTIONS
           THEN /\ result' = EXCEPTIONS[normalizedFull]
                /\ pc' = "returned"
                /\ UNCHANGED <<rawTokens, i, out>>
           ELSE /\ rawTokens' = tokenize(trimmed)
                /\ i' = 0
                /\ out' = <<>>
                /\ pc' = "TokenScan"
                /\ UNCHANGED result
    /\ UNCHANGED <<EXCEPTIONS, fn, argType, input>>

\* one iteration of the scan loop that finds a multi-token exception
\* a mutation of ScanWindow: the matched window is also stored in the
\* exception table under the key of its first token
ScanWindow_Caches ==
    /\ pc = "TokenScan"
    /\ i < Len(rawTokens)
    /\ matchedWidth(rawTokens, i) /= 0
    /\ LET w == matchedWidth(rawTokens, i)
       IN  /\ out' = Append(out, EXCEPTIONS[normSlice(rawTokens, i, w)])
           /\ i' = i + w
           /\ EXCEPTIONS' = addException(EXCEPTIONS, rawTokens[i + 1],
                                         EXCEPTIONS[normSlice(rawTokens, i, w)])
    /\ UNCHANGED <<pc, fn, argType, input, rawTokens, result>>

\* a mutation of ScanWindow: the cursor moves by one token after a match
ScanWindow_AdvancesOne ==
    /\ pc = "TokenScan"
    /\ i < Len(rawTokens)
    /\ matchedWidth(rawTokens, i) /= 0
    /\ LET w == matchedWidth(rawTokens, i)
       IN  /\ out' = Append(out, EXCEPTIONS[normSlice(rawTokens, i, w)])
           /\ i' = i + 1
    /\ UNCHANGED <<EXCEPTIONS, pc, fn, argType, input, rawTokens, result>>

ScanWindow ==
    /\ pc = "TokenScan"
    /\ i < Len(rawTokens)
    /\ matchedWidth(rawTokens, i) /= 0
    /\ LET w == matchedWidth(rawTokens, i)
       IN  /\ out' = Append(out, EXCEPTIONS[normSlice(rawTokens, i, w)])
           /\ i' = i + w
    /\ UNCHANGED <<EXCEPTIONS, pc, fn, argType, input, rawTokens, result>>

\* a mutation of ScanSingle: the cursor is not advanced
ScanSingle_NoAdvance ==
    /\ pc = "TokenScan"
    /\ i < Len(rawTokens)
    /\ matchedWidth(rawTokens, i) = 0
    /\ out' = Append(out, convertSyllable(rawTokens[i + 1]))
    /\ i' = i
    /\ UNCHANGED <<EXCEPTIONS, pc, fn, argType, input, rawTokens, result>>

\* one iteration of the scan loop that converts the token at the cursor
ScanSingle ==
    /\ pc = "TokenScan"
    /\ i < Len(rawTokens)
    /\ matchedWidth(rawTokens, i) = 0
    /\ out' = Append(out, convertSyllable(rawTokens[i + 1]))
    /\ i' = i + 1
    /\ UNCHANGED <<EXCEPTIONS, pc, fn, argType, input, rawTokens, result>>

\* the loop is over: return out.join(' ')
Done ==
    /\ pc = "TokenScan"
    /\ i >= Len(rawTokens)
    /\ result' = join(out, <<" ">>)
    /\ pc' = "returned"
    /\ UNCHANGED <<EXCEPTIONS, fn, argType, input, rawTokens, i, out>>

\* convertDzongkha(text) of Test2.js
CallConvertDzongkha ==
    /\ pc = "idle"
    /\ \E s \in TextInputs :
          /\ input' = s
          /\ result' = convertDzongkha(s)
    /\ argType' = "string"
    /\ fn' = "convertDzongkha"
    /\ pc' = "returned"
    /\ UNCHANGED <<EXCEPTIONS, rawTokens, i, out>>

\* the caller takes the result; the call's locals are gone
Return ==
    /\ pc = "returned"
    /\ pc' = "idle"
    /\ fn' = "none"
    /\ argType' = "none"
    /\ input' = <<>>
    /\ rawTokens' = <<>>
    /\ i' = 0
    /\ out' = <<>>
    /\ result' = <<>>
    /\ UNCHANGED EXCEPTIONS

Next ==
    \/ CallConvertSyllable
    \/ Start
    \/ WholeTextCheck
    \/ ScanWindow
    \/ ScanSingle
    \/ Done
    \/ CallConvertDzongkha
    \/ Return

Spec == Init /\ [][Next]_vars

(* ------------------------- Properties ------------------------- *)

\* the decomposition behind a returned convertSyllable call
rawOf(s) == trim(s)

\* separator, whitespace and punctuation stripped
stripped(s) == SelectSeq(s, LAMBDA ch : ch /= TSHEG /\ ch \notin PunctOrSpace)

\* the call went through the rule-based assembly (step 3 with a head)
rulePath(s) ==
    /\ rawOf(s) /= <<>>
    /\ stripped(s) \notin DOMAIN EXCEPTIONS
    /\ ~findClusterMap(rawOf(s)).whole
    /\ decomposeSyllableRaw(rawOf(s)).baseInitial /= NULL

syllableReturned ==
    pc = "returned" /\ fn = "convertSyllable" /\ argType = "string"

textReturned ==
    pc = "returned" /\ fn = "convertDzongkhaText" /\ argType = "string"

\* C1: a text whose normalized form is an exception key k returns the
\* stored value of k from the whole-text check; the token scan is never
\* entered for such a text.
C1_WholeTextException ==
    /\ (textReturned /\ stripped(input) \in DOMAIN EXCEPTIONS)
          => result = EXCEPTIONS[stripped(input)]
    /\ (pc = "TokenScan") => stripped(input) \notin DOMAIN EXCEPTIONS

\* a key written with a separator or punctuation inside, answered whole
C1_Witness ==
    /\ textReturned
    /\ stripped(input) \in DOMAIN EXCEPTIONS
    /\ input /= stripped(input)
    /\ Len(tokenize(trim(input))) >= 2
    /\ result = EXCEPTIONS[stripped(input)]

\* C2: when a 2-token and a 3-token window both match an exception key at
\* the cursor, the scan emits the 3-token entry's value and advances the
\* cursor by three.
C2_LongestWindow ==
    [][(/\ pc = "TokenScan"
        /\ windowMatches(rawTokens, i, 2)
        /\ windowMatches(rawTokens, i, 3))
       => (/\ i' = i + 3
           /\ out' = Append(out, EXCEPTIONS[normSlice(rawTokens, i, 3)]))]_vars

\* the first iteration consumed three tokens where two would have matched
C2_Witness ==
    /\ pc = "TokenScan"
    /\ i = 3
    /\ Len(out) = 1
    /\ windowMatches(rawTokens, 0, 2)
    /\ windowMatches(rawTokens, 0, 3)
    /\ out[1] = EXCEPTIONS[normSlice(rawTokens, 0, 3)]

\* position of the head among the letters of the syllable, and whether a
\* Prefix-set letter stands strictly before it
lettersOf(s) == stripped(rawOf(s))

headPosition(s) ==
    CHOOSE p \in 1..Len(lettersOf(s)) :
        /\ lettersOf(s)[p] \in DOMAIN INITIAL_BASE
        /\ \A q \in 1..(p - 1) : lettersOf(s)[q] \notin DOMAIN INITIAL_BASE

prefixBeforeHead(s) ==
    \E q \in 1..(headPosition(s) - 1) : lettersOf(s)[q] \in PREFIX_SET

\* a partial cluster entry replaces the initial (the hard-cluster override)
clusterOverride(s) ==
    findClusterMap(rawOf(s)) /= NoCluster /\ ~findClusterMap(rawOf(s)).whole

voicedHead(s) ==
    <<decomposeSyllableRaw(rawOf(s)).baseInitial>> \in DEVOICE_CANDIDATES

\* C3: on the rule path a voiced head carries the devoicing marker if and
\* only if no Prefix-set letter precedes the head and no hard-cluster
\* override applies.
C3_DevoicingIff ==
    (syllableReturned /\ rulePath(input) /\ voicedHead(input))
       => (contains(result, "'")
              <=> (~prefixBeforeHead(input) /\ ~clusterOverride(input)))

\* C4: a lone Root-table consonant that is no exception key converts to
\* its Root-table phoneme followed by "a" and nothing else.
C4_BareConsonant ==
    (/\ syllableReturned
     /\ Len(input) = 1
     /\ input[1] \in DOMAIN INITIAL_BASE
     /\ input \notin DOMAIN EXCEPTIONS)
       => result = INITIAL_BASE[input[1]] \o <<"a">>

Circumflexed == {"acirc", "ecirc", "icirc", "ocirc", "ucirc"}

\* C5: on the rule path a syllable whose final is the nasal velar has no
\* circumflexed vowel in its output, with or without the long mark.
C5_NoCircumflexBeforeNg ==
    (/\ syllableReturned
     /\ rulePath(input)
     /\ decomposeSyllableRaw(rawOf(input)).finalChar = "0F44")
       => \A p \in 1..Len(result) : result[p] \notin Circumflexed

\* a long-marked syllable ending in the nasal velar was converted
C5_Witness ==
    /\ syllableReturned
    /\ rulePath(input)
    /\ decomposeSyllableRaw(rawOf(input)).finalChar = "0F44"
    /\ decomposeSyllableRaw(rawOf(input)).longMark
    /\ decomposeSyllableRaw(rawOf(input)).baseInitial /= "0F44"
    /\ endsWith(result, <<"a", "n", "g">>)

BzangPo == <<"0F56", "0F5F", "0F44", "0F0B", "0F54", "0F7C">>
Brug == <<"0F60", "0F56", "0FB2", "0F74", "0F42">>
Lha == <<"0F63", "0FB7">>
DkarPo == <<"0F51", "0F40", "0F62", "0F0B", "0F54", "0F7C">>
BzlogThabs ==
    <<"0F56", "0F5F", "0FB3", "0F7C", "0F42", "0F0B", "0F50", "0F56", "0F66">>
Brgyad == <<"0F56", "0F62", "0F92", "0FB1", "0F51">>

\* C6: the two-syllable word bzang-po converts to "zangpo".
C6_BzangPo ==
    (/\ pc = "returned"
     /\ fn \in {"convertDzongkha", "convertDzongkhaText"}
     /\ input = BzangPo)
       => result = <<"z", "a", "n", "g", "p", "o">>

\* C7: the phrase 'brug converts to "'druk" (with U+2019).
C7_Brug ==
    (/\ pc = "returned"
     /\ fn \in {"convertDzongkha", "convertDzongkhaText"}
     /\ input = Brug)
       => result = <<"rsquo", "d", "r", "u", "k">>

\* C8: the syllable lha converts to "lha".
C8_Lha ==
    (/\ pc = "returned"
     /\ fn \in {"convertSyllable", "convertDzongkhaText", "convertDzongkha"}
     /\ argType = "string"
     /\ input = Lha)
       => result = <<"l", "h", "a">>

\* C9: convertSyllable answers a token whose normalized form is an
\* exception key with the stored value, before any cluster override or
\* decomposition; brgyad yields "g" + a-diaeresis.
C9_ExceptionFirst ==
    /\ (syllableReturned /\ stripped(input) \in DOMAIN EXCEPTIONS)
          => result = EXCEPTIONS[stripped(input)]
    /\ (syllableReturned /\ input = Brgyad) => result = <<"g", "auml">>

\* an exception key that also holds a cluster key was answered from the table
C9_Witness ==
    /\ syllableReturned
    /\ stripped(input) \in DOMAIN EXCEPTIONS
    /\ findClusterMap(rawOf(input)) /= NoCluster
    /\ ~findClusterMap(rawOf(input)).whole
    /\ result = EXCEPTIONS[stripped(input)]

\* C10: convertDzongkha maps dkar-po to "kap" (circumflexed a) and
\* bzlog-thabs to "dokthap".
C10_DemoExamples ==
    (pc = "returned" /\ fn = "convertDzongkha")
       => /\ (input = DkarPo => result = <<"k", "acirc", "p">>)
          /\ (input = BzlogThabs
                 => result = <<"d", "o", "k", "t", "h", "a", "p">>)


\* the sentence-terminal marks: shad and nyis-shad
SentenceMarks == {"0F0D", "0F0E"}

\* for every mark (or period) of s, in order, the number of tokens that
\* start before it; a token is a maximal run of characters that are
\* neither marks nor breaks
RECURSIVE markShape(_, _, _, _, _, _)
markShape(s, p, marks, breaks, seen, shape) ==
    IF p > Len(s) THEN shape
    ELSE IF s[p] \in marks
         THEN markShape(s, p + 1, marks, breaks, seen, Append(shape, seen))
    ELSE IF s[p] \in breaks
         THEN markShape(s, p + 1, marks, breaks, seen, shape)
    ELSE IF p > 1 /\ s[p - 1] \notin marks \cup breaks
         THEN markShape(s, p + 1, marks, breaks, seen, shape)
    ELSE markShape(s, p + 1, marks, breaks, seen + 1, shape)

\* C11: the text conversion keeps sentence-terminal punctuation: every
\* shad or nyis-shad of the input appears in the output as a period, at
\* the same position among the tokens.
C11_PunctuationKept ==
    (textReturned /\ stripped(input) \notin DOMAIN EXCEPTIONS)
       => markShape(result, 1, {"."}, {" "}, 0, <<>>)
             = markShape(input, 1, SentenceMarks,
                         WhiteSpace \cup {TSHEG, "0F0F", "0F14"}, 0, <<>>)

\* no letter of the token is a Root-table consonant
noRoot(s) == \A p \in 1..Len(s) : s[p] \notin DOMAIN INITIAL_BASE

\* the token reaches the passthrough of convertSyllable
unrecognized(s) ==
    /\ noRoot(s)
    /\ stripped(s) \notin DOMAIN EXCEPTIONS
    /\ ~findClusterMap(rawOf(s)).whole

ClusterLetters ==
    UNION {{CLUSTER_INITIAL_MAP[k].key[p] : p \in 1..Len(CLUSTER_INITIAL_MAP[k].key)}
              : k \in 1..Len(CLUSTER_INITIAL_MAP)}

\* the codepoint has no table role and is no separator, punctuation or
\* whitespace either
noRole(ch) ==
    /\ ch \notin DOMAIN INITIAL_BASE
    /\ ch \notin DOMAIN MEDIALS
    /\ ch \notin DOMAIN VOWELS
    /\ ch /= LONG_MARK
    /\ ch \notin DOMAIN FINAL_MAP
    /\ ch \notin PREFIX_SET
    /\ ch \notin ClusterLetters
    /\ ch \notin PunctOrSpace \cup WhiteSpace \cup {TSHEG}

\* C13: on the rule path a codepoint with no table role contributes
\* nothing: the answer equals the answer for the syllable without it,
\* wherever the codepoint stands.
C13_UnmappedIgnored ==
    (syllableReturned /\ rulePath(input))
       => \A p \in 1..Len(input) :
             (noRole(input[p]) /\ rulePath(removeAt(input, p)))
                => result = convertSyllable(removeAt(input, p))


\* C14: the token scan terminates: in the scan the cursor never passes the
\* end of the token list and there have been at most as many iterations as
\* tokens consumed; every iteration moves the cursor forward by at least
\* one token and emits one item; and the scan is left only at the end of
\* the list, returning the joined string.
C14_ScanTerminates ==
    [][pc = "TokenScan" =>
          /\ i <= Len(rawTokens)
          /\ Len(out) <= i
          /\ \/ /\ pc' = "TokenScan"
                /\ i' >= i + 1
                /\ i' <= Len(rawTokens)
                /\ Len(out') = Len(out) + 1
                /\ rawTokens' = rawTokens
             \/ /\ pc' = "returned"
                /\ i = Len(rawTokens)
                /\ result' = join(out, <<" ">>)]_vars

\* a scan of at least three tokens, converted one by one, has returned
C14_Witness ==
    /\ textReturned
    /\ Len(rawTokens) >= 3
    /\ i = Len(rawTokens)
    /\ Len(out) = Len(rawTokens)
    /\ result = join(out, <<" ">>)


\* nothing but whitespace (the empty string included)
whitespaceOnly(s) == \A p \in 1..Len(s) : s[p] \in WhiteSpace

\* C15: convertSyllable and convertDzongkhaText answer the empty string
\* for an empty string, for a whitespace-only string and for an argument
\* that is no string; the call returns.
C15_EmptyInput ==
    /\ (pc = "returned" /\ fn \in {"convertSyllable", "convertDzongkhaText"}
           /\ (argType /= "string" \/ whitespaceOnly(input)))
          => result = <<>>
    /\ (pc = "WholeTextCheck" \/ pc = "TokenScan")
          => (argType = "string" /\ ~whitespaceOnly(input))

\* a call with a non-empty whitespace-only string came back empty
C15_Witness ==
    /\ pc = "returned"
    /\ fn \in {"convertSyllable", "convertDzongkhaText"}
    /\ argType = "string"
    /\ input /= <<>>
    /\ whitespaceOnly(input)
    /\ result = <<>>


\* the codepoints of s that are no separator, punctuation or whitespace,
\* counted from the left
RECURSIVE keptLetters(_)
keptLetters(s) ==
    IF s = <<>> THEN <<>>
    ELSE IF Head(s) = TSHEG \/ Head(s) \in PunctOrSpace
         THEN keptLetters(Tail(s))
    ELSE <<Head(s)>> \o keptLetters(Tail(s))

\* C16: normalizeKey is idempotent on the argument of every returned
\* call; its result holds no separator, sentence punctuation or
\* whitespace, and holds every other codepoint of the argument in the
\* original order.
C16_NormalizeIdempotent ==
    (pc = "returned" /\ argType = "string") =>
       LET n == normalizeKey(input)
       IN  /\ normalizeKey(n) = n
           /\ \A p \in 1..Len(n) : n[p] /= TSHEG /\ n[p] \notin PunctOrSpace
           /\ n = keptLetters(input)

\* a text with a separator and a sentence mark was normalized to a
\* shorter, non-empty key
C16_Witness ==
    /\ textReturned
    /\ contains(input, TSHEG)
    /\ \E p \in 1..Len(input) : input[p] \in {"0F0D", "0F0E", "0F0F", "0F14"}
    /\ normalizeKey(input) /= <<>>
    /\ Len(normalizeKey(input)) < Len(input)
    /\ normalizeKey(normalizeKey(input)) = normalizeKey(input)


\* C17: no call writes the exception table: in every state it is the
\* table built by the addException calls at load time, so whatever calls
\* came before, a key of that table is answered with the value stored at
\* load time.
C17_TablesUnchanged ==
    /\ EXCEPTIONS = InitialExceptions
    /\ (syllableReturned /\ rawOf(input) /= <<>>
           /\ stripped(input) \in DOMAIN InitialExceptions)
          => result = InitialExceptions[stripped(input)]

\* a text call that took a multi-token window from the table has returned
\* and the table is the initial one
C17_Witness ==
    /\ textReturned
    /\ rawTokens /= <<>>
    /\ Len(out) < Len(rawTokens)
    /\ EXCEPTIONS = InitialExceptions


\* the vowel signs of the syllable, in the syllable's own order
vowelSignsOf(s) ==
    SelectSeq(lettersOf(s), LAMBDA ch : ch /= "" /\ ch \in DOMAIN VOWELS)

cleanedOf(s) ==
    LET noLong == SelectSeq(lettersOf(s), LAMBDA ch : ch /= LONG_MARK)
        v == decomposeSyllableRaw(rawOf(s)).vowelSign
    IN  IF v = "" THEN noLong ELSE removeAt(noLong, indexOf(noLong, v))

\* the positions of cleanedOf(s) that may hold the final: in the Final
\* table, not the head, not a subjoined letter
finalPositions(s) ==
    LET c == cleanedOf(s)
        head == CHOOSE p \in 1..Len(c) :
                   /\ c[p] \in DOMAIN INITIAL_BASE
                   /\ \A q \in 1..(p - 1) : c[q] \notin DOMAIN INITIAL_BASE
    IN  {p \in 1..Len(c) : /\ c[p] \in DOMAIN FINAL_MAP
                           /\ p /= head
                           /\ c[p] \notin DOMAIN MEDIALS}

\* C19: on the rule path the final chosen by decomposition is the
\* right-most Final-table letter other than the head and the subjoined
\* letters, and there is no final when no such letter exists.
C19_FinalExcludesHead ==
    (syllableReturned /\ rulePath(input))
       => LET c == cleanedOf(input)
              ps == finalPositions(input)
              f == decomposeSyllableRaw(rawOf(input)).finalChar
          IN  IF ps = {} THEN f = NULL
              ELSE f = c[CHOOSE p \in ps : \A q \in ps : q <= p]


clusterHits(s) ==
    {p \in 1..Len(CLUSTER_INITIAL_MAP) : includes(s, CLUSTER_INITIAL_MAP[p].key)}

\* the position of the longest key among the hits, the first registered
\* among keys of that length
longestHit(s) ==
    CHOOSE p \in clusterHits(s) :
        \A q \in clusterHits(s) :
            \/ Len(CLUSTER_INITIAL_MAP[q].key) < Len(CLUSTER_INITIAL_MAP[p].key)
            \/ /\ Len(CLUSTER_INITIAL_MAP[q].key) = Len(CLUSTER_INITIAL_MAP[p].key)
               /\ p <= q

\* C21: the cluster lookup selects the longest key that is a substring of
\* the syllable, the first registered among keys of equal length, and
\* finds nothing when no key occurs; when the selected entry is whole the
\* answer is its stored Roman string, whatever else the syllable holds.
C21_LongestClusterKey ==
    (syllableReturned /\ rawOf(input) /= <<>>) =>
       LET hits == clusterHits(rawOf(input))
           cm == findClusterMap(rawOf(input))
       IN  IF hits = {} THEN cm = NoCluster
           ELSE /\ cm = CLUSTER_INITIAL_MAP[longestHit(rawOf(input))]
                /\ cm.whole => result = cm.roman

\* a syllable that holds the whole cluster, a shorter key of the table and
\* a vowel sign, long mark or final besides, and is no exception key, was
\* answered with the stored string of the whole cluster
C21_Witness ==
    /\ syllableReturned
    /\ stripped(input) \notin DOMAIN EXCEPTIONS
    /\ Cardinality(clusterHits(rawOf(input))) >= 3
    /\ CLUSTER_INITIAL_MAP[longestHit(rawOf(input))].whole
    /\ \E p \in 1..Len(input) :
          input[p] \in {"0F72", "0F71", "0F44"}
    /\ result = CLUSTER_INITIAL_MAP[longestHit(rawOf(input))].roman


\* the letters of the tokens cursor+1 .. cursor+w, without punctuation
windowKey(tokens, cursor, w) ==
    stripped(concat(SubSeq(tokens, cursor + 1, cursor + w)))

\* tokens cursor+1 .. cursor+w are rightly consumed by the one entry e: a
\* single token by its conversion, a window of 2 or 3 tokens by the
\* stored string of its key
consumedBy(tokens, cursor, w, e) ==
    /\ w \in {1, 2, 3}
    /\ cursor + w <= Len(tokens)
    /\ e /= <<>>
    /\ IF w = 1 THEN e = convertSyllable(tokens[cursor + 1])
       ELSE /\ windowKey(tokens, cursor, w) \in DOMAIN EXCEPTIONS
            /\ e = EXCEPTIONS[windowKey(tokens, cursor, w)]

RECURSIVE sumTo(_, _)
sumTo(ws, k) == IF k = 0 THEN 0 ELSE ws[k] + sumTo(ws, k - 1)

\* the entries are, in token order, the conversions of consecutive
\* segments of widths ws that cover all the tokens, and there are as many
\* entries as tokens less the sum of (width - 1)
coveredBy(tokens, entries, ws) ==
    /\ sumTo(ws, Len(ws)) = Len(tokens)
    /\ \A k \in 1..Len(ws) :
          consumedBy(tokens, sumTo(ws, k - 1), ws[k], entries[k])
    /\ Len(entries)
          = Len(tokens) - sumTo([k \in 1..Len(ws) |-> ws[k] - 1], Len(ws))

\* C22: in the token scan every iteration moves the cursor forward, not
\* past the token count, and adds one non-empty entry that consumes
\* exactly the tokens the cursor moved over (a window of 2 or 3 tokens or
\* one converted token); at Done the entries cover all the tokens in
\* order, none skipped or taken twice, and their number is the token
\* count less the sum of (width - 1) over the windows.
C22_EveryTokenOnce ==
    [][pc = "TokenScan" =>
          \/ /\ pc' = "TokenScan"
             /\ rawTokens' = rawTokens
             /\ i' > i
             /\ i' <= Len(rawTokens)
             /\ Len(out') = Len(out) + 1
             /\ SubSeq(out', 1, Len(out)) = out
             /\ consumedBy(rawTokens, i, i' - i, out'[Len(out')])
          \/ /\ pc' = "returned"
             /\ i = Len(rawTokens)
             /\ \E ws \in [1..Len(out) -> {1, 2, 3}] :
                   coveredBy(rawTokens, out, ws)]_vars

\* a scan that took one window of two tokens and converted at least one
\* token alone has returned
C22_Witness ==
    /\ textReturned
    /\ Len(out) >= 2
    /\ Len(rawTokens) = Len(out) + 1
    /\ i = Len(rawTokens)
    /\ \E ws \in [1..Len(out) -> {1, 2}] : coveredBy(rawTokens, out, ws)

====
